---- MODULE Spec2Model ----
(***************************************************************************)
(* Model of app.py: a coupon scraper that reveals lazily loaded content    *)
(* with a browser (collect_dynamic_content), pulls coupon-like snippets    *)
(* from the markup (extract_coupon_candidates), asks a language model to   *)
(* structure them (summarize_with_ai) and assembles the result (run, main).*)
(*                                                                         *)
(* Text is modelled as a sequence of tokens: a token is a word, a          *)
(* punctuation mark of JSON, or a single whitespace character.             *)
(***************************************************************************)
EXTENDS Integers, Sequences, FiniteSets, TLC

\* ------------------------------------------------------------------------
\* Bounds of the model
\* ------------------------------------------------------------------------
MaxScrollsArg == 4
MaxClicksArg == 2
MaxCount == 3
NumKeywords == 2

\* ------------------------------------------------------------------------
\* Program constants
\* ------------------------------------------------------------------------
DefaultMaxScrolls == 8
DefaultMaxClicks == 5
DefaultLimit == 30

DefaultKey == "sk-f0a3bf1e44554bc6bea9936ea410db80"

LOAD_MORE_KEYWORDS ==
  << "load more", "show more", "ver más", "ver mas", "mostrar más",
     "mostrar mas", "ver todo", "más resultados", "mas resultados", "load" >>

\* The keywords the click loop of the model iterates: the first NumKeywords
\* entries of LOAD_MORE_KEYWORDS, in list order.
Keywords == SubSeq(LOAD_MORE_KEYWORDS, 1, NumKeywords)

Min(a, b) == IF a < b THEN a ELSE b

VARIABLES
  \* collect_dynamic_content
  rpc,              \* position in collect_dynamic_content
  max_scrolls,      \* argument
  max_clicks,       \* argument
  playwright,       \* the driver of `async with async_playwright()`
  browser,          \* the browser launched by the driver
  previous_height,
  scroll_events,
  scroll_i,         \* the loop variable `_` of the scroll loop, plus one
  kw,               \* position of `keyword` in the keyword list
  count,
  index,
  clicks,
  html,             \* <<>> or <<markup>>
  capture,          \* <<>> or <<the returned dict>>
  exc,              \* the exception in flight, "none" when there is none
  heights,          \* history: the heights measured, in order
  counts,           \* history: locator.count() per keyword, in order
  attempts,         \* history: the click attempts, in order
  \* extract_coupon_candidates
  epc,              \* position in extract_coupon_candidates
  soup,             \* <<>> or <<the parsed markup>>
  limit,            \* argument
  pos,              \* position of `element` in soup.find_all(text=True)
  snippets,
  candidates,       \* the returned list
  \* summarize_with_ai
  spc,              \* position in summarize_with_ai
  url,              \* the target URL
  env_key,          \* os.environ: <<>> or <<the value of DEEPSEEK_API_KEY>>
  DEEPSEEK_TOKEN,   \* the module level key, set at import
  content,          \* <<>> or <<response.choices[0].message.content>>
  raw_content,
  coupons,          \* the returned list
  api_exc,          \* the exception leaving summarize_with_ai, or "none"
  api_requests,     \* history: the chat completion requests issued
  \* run and main
  runpc,            \* position in run and main
  run_exc,          \* the exception leaving run, or "none"
  result,           \* <<>> or <<the dict run returns>>
  printed           \* <<>> or <<the dict main prints>>

revealVars == << rpc, max_scrolls, max_clicks, playwright, browser,
                 previous_height, scroll_events, scroll_i, kw, count, index,
                 clicks, html, capture, exc, heights, counts, attempts >>

extractVars == << epc, soup, limit, pos, snippets, candidates >>

synthVars == << spc, url, env_key, DEEPSEEK_TOKEN, content, raw_content,
                coupons, api_exc, api_requests >>

runVars == << runpc, run_exc, result, printed >>

vars == << revealVars, extractVars, synthVars, runVars >>


\* ------------------------------------------------------------------------
\* Markup and text
\* ------------------------------------------------------------------------
MaxNodes == 3
MaxLimit == 3

SP == " "
NL == "\n"
FF == "\f"

\* str.strip() and str.split() of Python take all of these as whitespace.
PyWhitespace == { SP, NL, FF }

COUPON_KEYWORDS ==
  << "cupón", "cupon", "descuento", "promo", "promoción", "promocion",
     "oferta", "código", "codigo" >>

\* str.lower() on the words of the model.
Lower(w) == IF w = "OFERTA" THEN "oferta" ELSE w

\* `keyword in word` for the (lower case) words of the model: the keywords
\* that are substrings of the word.
KeywordsIn(w) ==
  CASE w = "cupón" -> { "cupón" }
    [] w = "descuento" -> { "descuento" }
    [] w = "oferta" -> { "oferta" }
    [] OTHER -> { }

Range(q) == { q[i] : i \in 1 .. Len(q) }

RECURSIVE LStrip(_)
LStrip(t) ==
  IF t # << >> /\ Head(t) \in PyWhitespace THEN LStrip(Tail(t)) ELSE t

RECURSIVE RStrip(_)
RStrip(t) ==
  IF t # << >> /\ t[Len(t)] \in PyWhitespace
    THEN RStrip(SubSeq(t, 1, Len(t) - 1))
    ELSE t

\* str.strip()
Strip(t) == RStrip(LStrip(t))

\* str.split(): the words between runs of whitespace.
Split(t) == SelectSeq(t, LAMBDA c : c \notin PyWhitespace)

\* sep.join(parts), for parts that are texts.
RECURSIVE Join(_, _)
Join(sep, parts) ==
  IF parts = << >> THEN << >>
  ELSE IF Len(parts) = 1 THEN parts[1]
  ELSE parts[1] \o << sep >> \o Join(sep, Tail(parts))

\* " ".join(element.strip().split())
Normalize(t) == Join(SP, [i \in 1 .. Len(Split(Strip(t))) |-> << Split(Strip(t))[i] >>])

\* any(keyword in lower for keyword in COUPON_KEYWORDS), lower = text.lower()
HasKeyword(text) ==
  \E i \in 1 .. Len(text) :
    \E j \in 1 .. Len(COUPON_KEYWORDS) :
      COUPON_KEYWORDS[j] \in KeywordsIn(Lower(text[i]))

\* The texts a string of the markup may hold.
Texts ==
  { << "50%", SP, "cupón", SP, "de", SP, "descuento" >>,
    << NL, SP >>,
    << "hola" >>,
    << SP, "OFERTA", NL >> }

\* The strings of a document: text strings, and a comment that names a
\* coupon.  find_all(text=True) yields both, get_text only the text strings.
Strings ==
  { [s |-> t, k |-> "text"] : t \in Texts }
    \cup { [s |-> << "cupón" >>, k |-> "comment"] }

\* A document is the sequence of its strings in document order, each with
\* the element it is a child of (0 is the BeautifulSoup object itself), and
\* the parent of each element.  Element 1 is a child of the document,
\* element 2 a child of the document or of element 1.
Elements == { 1, 2 }
Parents == { << 0, 0 >>, << 0, 1 >> }

RECURSIVE InSubtree(_, _, _)
InSubtree(ep, p, e) ==
  \/ p = e
  \/ p # 0 /\ InSubtree(ep, ep[p], e)

\* The positions of the strings below element e of document d.
Below(d, e) == { i \in 1 .. Len(d.nodes) : InSubtree(d.ep, d.nodes[i].p, e) }

\* In document order the strings below an element are adjacent.
WellFormed(d) ==
  \A e \in Elements :
    \A i \in Below(d, e), j \in Below(d, e) :
      \A m \in i .. j : m \in Below(d, e)

NodesOfLen(n) ==
  [ 1 .. n -> { [s |-> x.s, k |-> x.k, p |-> q] : x \in Strings, q \in {0} \cup Elements } ]

Docs ==
  { d \in { [nodes |-> ns, ep |-> e] :
              ns \in UNION { NodesOfLen(n) : n \in 0 .. MaxNodes }, e \in Parents } :
      WellFormed(d) }

\* The positions, in order, of a set of positions.
RECURSIVE Sorted(_)
Sorted(S) ==
  IF S = { } THEN << >>
  ELSE LET m == CHOOSE x \in S : \A y \in S : x <= y
       IN << m >> \o Sorted(S \ { m })

\* element.get_text(" ", strip=True) of element e: the text strings below e,
\* stripped, the empty ones dropped, joined by a space.
GetText(d, e) ==
  LET ps == Sorted({ i \in Below(d, e) : d.nodes[i].k = "text" })
      stripped == [ i \in 1 .. Len(ps) |-> Strip(d.nodes[ps[i]].s) ]
  IN Join(SP, SelectSeq(stripped, LAMBDA t : t # << >>))

\* ------------------------------------------------------------------------
\* extract_coupon_candidates (app.py 77-92)
\* ------------------------------------------------------------------------

\* (a mutant: the snippet is appended without the `not in snippets` test)
SnippetsAfterNoDedup(d, sn, i) ==
  LET text == Normalize(d.nodes[i].s)
      snippet == GetText(d, d.nodes[i].p)
  IN IF HasKeyword(text) /\ snippet # << >>
       THEN Append(sn, snippet)
       ELSE sn

\* The value of `snippets` after the body of the loop for the i-th string,
\* whose normalized text is not empty.
SnippetsAfter(d, sn, i) ==
  LET text == Normalize(d.nodes[i].s)
      snippet == GetText(d, d.nodes[i].p)
  IN IF HasKeyword(text) /\ snippet # << >> /\ snippet \notin Range(sn)
       THEN Append(sn, snippet)
       ELSE sn

\* One iteration of `for element in soup.find_all(text=True)`: an empty text
\* continues; else the snippet is added when it is new, and the loop breaks
\* when len(snippets) >= limit.
WalkNode ==
  /\ epc = "walk"
  /\ pos <= Len(soup[1].nodes)
  /\ IF Normalize(soup[1].nodes[pos].s) = << >>
       THEN /\ snippets' = snippets
            /\ pos' = pos + 1
            /\ epc' = "walk"
       ELSE /\ snippets' = SnippetsAfter(soup[1], snippets, pos)
            /\ IF Len(snippets') >= limit
                 THEN pos' = pos /\ epc' = "break"
                 ELSE pos' = pos + 1 /\ epc' = "walk"
  /\ UNCHANGED << soup, limit, candidates >>
  /\ UNCHANGED << revealVars, synthVars, runVars >>

\* return snippets, after the break or at the end of the strings.
ExtractReturn ==
  /\ \/ epc = "break"
     \/ epc = "walk" /\ pos > Len(soup[1].nodes)
  /\ candidates' = snippets
  /\ epc' = "returned"
  /\ UNCHANGED << soup, limit, pos, snippets >>
  /\ UNCHANGED << revealVars, synthVars, runVars >>

ExtractIdle ==
  /\ epc = "idle"
  /\ soup = << >>
  /\ limit = 0
  /\ pos = 1
  /\ snippets = << >>
  /\ candidates = << >>


\* ------------------------------------------------------------------------
\* JSON
\* ------------------------------------------------------------------------
MaxRespLen == 3

\* The whitespace json.loads skips (a form feed is not part of it).
JsonWhitespace == { SP, NL }

\* The string literals of the model, with the strings they denote.
StringTokens ==
  { "\"title\"", "\"description\"", "\"code\"", "\"value\"", "\"link\"",
    "\"A\"", "\"B\"", "\"10%\"", "\"https://shop.example/x\"" }

Decode(tok) ==
  CASE tok = "\"title\"" -> "title"
    [] tok = "\"description\"" -> "description"
    [] tok = "\"code\"" -> "code"
    [] tok = "\"value\"" -> "value"
    [] tok = "\"link\"" -> "link"
    [] tok = "\"A\"" -> "A"
    [] tok = "\"B\"" -> "B"
    [] tok = "\"10%\"" -> "10%"
    [] tok = "\"https://shop.example/x\"" -> "https://shop.example/x"

DigitTokens == { "7" }

\* The values json.loads yields, tagged with their Python type: None, bool,
\* a number, str (a text), list, dict (the key/value pairs in insertion order).
JNull == [t |-> "null", v |-> << >>]
JBool(b) == [t |-> "bool", v |-> << b >>]
JNum(ds) == [t |-> "num", v |-> ds]
JStr(text) == [t |-> "str", v |-> text]
JList(q) == [t |-> "list", v |-> q]
JObj(pairs) == [t |-> "dict", v |-> pairs]

\* d[k] = v on the pairs of a dict.
Put(pairs, k, v) ==
  IF \E i \in 1 .. Len(pairs) : pairs[i][1] = k
    THEN [ i \in 1 .. Len(pairs) |->
             IF pairs[i][1] = k THEN << k, v >> ELSE pairs[i] ]
    ELSE Append(pairs, << k, v >>)

HasKey(obj, k) == \E i \in 1 .. Len(obj.v) : obj.v[i][1] = k
Get(obj, k) == obj.v[CHOOSE i \in 1 .. Len(obj.v) : obj.v[i][1] = k][2]

Fail == [ok |-> FALSE, val |-> JNull, rest |-> << >>]
Ok(val, rest) == [ok |-> TRUE, val |-> val, rest |-> rest]

RECURSIVE SkipWs(_)
SkipWs(s) ==
  IF s # << >> /\ Head(s) \in JsonWhitespace THEN SkipWs(Tail(s)) ELSE s

RECURSIVE DigitRun(_)
DigitRun(s) ==
  IF s # << >> /\ Head(s) \in DigitTokens THEN 1 + DigitRun(Tail(s)) ELSE 0

RECURSIVE ParseValue(_)
RECURSIVE ParseElements(_, _)
RECURSIVE ParseMembers(_, _)

\* One JSON value at the head of s (which has no leading whitespace).
ParseValue(s) ==
  IF s = << >> THEN Fail
  ELSE LET h == Head(s)
           r == Tail(s)
       IN CASE h = "null" -> Ok(JNull, r)
            [] h \in { "true", "false" } -> Ok(JBool(h), r)
            [] h \in DigitTokens ->
                 Ok(JNum(SubSeq(s, 1, DigitRun(s))),
                    SubSeq(s, DigitRun(s) + 1, Len(s)))
            [] h \in StringTokens -> Ok(JStr(<< Decode(h) >>), r)
            [] h = "[" ->
                 IF SkipWs(r) # << >> /\ Head(SkipWs(r)) = "]"
                   THEN Ok(JList(<< >>), Tail(SkipWs(r)))
                   ELSE ParseElements(SkipWs(r), << >>)
            [] h = "{" ->
                 IF SkipWs(r) # << >> /\ Head(SkipWs(r)) = "}"
                   THEN Ok(JObj(<< >>), Tail(SkipWs(r)))
                   ELSE ParseMembers(SkipWs(r), << >>)
            [] OTHER -> Fail

\* The elements of an array after acc, up to the closing bracket.
ParseElements(s, acc) ==
  LET e == ParseValue(s)
      s2 == SkipWs(e.rest)
  IN IF ~e.ok \/ s2 = << >> THEN Fail
     ELSE IF Head(s2) = "]" THEN Ok(JList(Append(acc, e.val)), Tail(s2))
     ELSE IF Head(s2) = "," THEN ParseElements(SkipWs(Tail(s2)), Append(acc, e.val))
     ELSE Fail

\* The members of an object after acc, up to the closing brace.
ParseMembers(s, acc) ==
  IF s = << >> \/ Head(s) \notin StringTokens THEN Fail
  ELSE LET key == Decode(Head(s))
           s1 == SkipWs(Tail(s))
       IN IF s1 = << >> \/ Head(s1) # ":" THEN Fail
          ELSE LET e == ParseValue(SkipWs(Tail(s1)))
                   s3 == SkipWs(e.rest)
               IN IF ~e.ok \/ s3 = << >> THEN Fail
                  ELSE IF Head(s3) = "}"
                         THEN Ok(JObj(Put(acc, key, e.val)), Tail(s3))
                  ELSE IF Head(s3) = ","
                         THEN ParseMembers(SkipWs(Tail(s3)), Put(acc, key, e.val))
                  ELSE Fail

\* json.loads(s): one value with whitespace around it and nothing else; ok is
\* FALSE where json.loads raises JSONDecodeError.
JsonLoads(s) ==
  LET e == ParseValue(SkipWs(s))
  IN IF e.ok /\ SkipWs(e.rest) = << >> THEN Ok(e.val, << >>) ELSE Fail

\* ------------------------------------------------------------------------
\* summarize_with_ai (app.py 95-126)
\* ------------------------------------------------------------------------

Sentinel == "No se pudieron interpretar cupones"
NoCandidates == "- (sin candidatos claros)"

\* "\n".join(f"- {text}" for text in candidates) or "- (sin candidatos claros)"
JoinedCandidates(cands) ==
  IF Join(NL, [ i \in 1 .. Len(cands) |-> << "- " >> \o cands[i] ]) = << >>
    THEN << NoCandidates >>
    ELSE Join(NL, [ i \in 1 .. Len(cands) |-> << "- " >> \o cands[i] ])

\* os.environ.get("DEEPSEEK_API_KEY", "sk-...")
TokenFromEnv(env) == IF env = << >> THEN DefaultKey ELSE env[1]

\* response.choices[0].message.content or "[]": c is <<>> for None, else
\* <<the text>>.
RawContent(c) == IF c = << >> \/ c[1] = << >> THEN << "[", "]" >> ELSE c[1]

\* (a mutant: the description is the raw text, not stripped)
FallbackNoStrip(u, raw) ==
  JObj(<< << "title", JStr(<< Sentinel >>) >>,
          << "description", JStr(raw) >>,
          << "code", JNull >>,
          << "value", JNull >>,
          << "link", JStr(<< u >>) >> >>)

\* The record of line 126.
Fallback(u, raw) ==
  JObj(<< << "title", JStr(<< Sentinel >>) >>,
          << "description", JStr(Strip(raw)) >>,
          << "code", JNull >>,
          << "value", JNull >>,
          << "link", JStr(<< u >>) >> >>)

\* (a mutant: a list is returned with the null and missing links of its
\* records set to the URL)
ResultOfNormalizingLinks(u, raw) ==
  LET e == JsonLoads(raw)
      fix(x) == IF x.t = "dict" /\ (~HasKey(x, "link") \/ Get(x, "link") = JNull)
                  THEN JObj(Put(x.v, "link", JStr(<< u >>)))
                  ELSE x
  IN IF e.ok /\ e.val.t = "list"
       THEN [ i \in 1 .. Len(e.val.v) |-> fix(e.val.v[i]) ]
       ELSE << Fallback(u, raw) >>

\* (a mutant: no fallback record, an empty list instead)
ResultOfNoFallback(u, raw) ==
  LET e == JsonLoads(raw)
  IN IF e.ok /\ e.val.t = "list" THEN e.val.v ELSE << >>

\* (a mutant: an empty list of the model is answered with the fallback
\* record too, so that the result is never empty)
ResultOfNeverEmpty(u, raw) ==
  LET e == JsonLoads(raw)
  IN IF e.ok /\ e.val.t = "list" /\ e.val.v # << >>
       THEN e.val.v
       ELSE << Fallback(u, raw) >>

\* Lines 120-126: the parsed value when json.loads succeeds and yields a
\* list, else the one fallback record.
ResultOf(u, raw) ==
  LET e == JsonLoads(raw)
  IN IF e.ok /\ e.val.t = "list" THEN e.val.v ELSE << Fallback(u, raw) >>

\* client = OpenAI(api_key=DEEPSEEK_TOKEN, ...), the prompt is built and
\* client.chat.completions.create(...) returns a response whose content is
\* None or a text of R.
CallModel(R) ==
  /\ spc = "call"
  /\ api_requests' = Append(api_requests,
                       [api_key |-> DEEPSEEK_TOKEN, url |-> url,
                        candidates |-> JoinedCandidates(candidates),
                        temperature |-> 0])
  /\ \E r \in R : content' = r
  /\ spc' = "handle"
  /\ UNCHANGED << url, env_key, DEEPSEEK_TOKEN, raw_content, coupons, api_exc >>
  /\ UNCHANGED << revealVars, extractVars, runVars >>

\* (a mutant: a failed request is sent a second time)
CallModelFailsRetried ==
  /\ spc = "call"
  /\ api_requests' = Append(api_requests,
                       [api_key |-> DEEPSEEK_TOKEN, url |-> url,
                        candidates |-> JoinedCandidates(candidates),
                        temperature |-> 0])
  /\ api_exc' = "APIError"
  /\ spc' = IF api_requests = << >> THEN "call" ELSE "raised"
  /\ UNCHANGED << url, env_key, DEEPSEEK_TOKEN, content, raw_content, coupons >>
  /\ UNCHANGED << revealVars, extractVars, runVars >>

\* client.chat.completions.create(...) raises (auth, network, quota).
CallModelFails ==
  /\ spc = "call"
  /\ api_requests' = Append(api_requests,
                       [api_key |-> DEEPSEEK_TOKEN, url |-> url,
                        candidates |-> JoinedCandidates(candidates),
                        temperature |-> 0])
  /\ api_exc' = "APIError"
  /\ spc' = "raised"
  /\ UNCHANGED << url, env_key, DEEPSEEK_TOKEN, content, raw_content, coupons >>
  /\ UNCHANGED << revealVars, extractVars, runVars >>

\* Lines 119-126: raw_content is taken from the response and the list of
\* coupons is returned.
HandleResponse ==
  /\ spc = "handle"
  /\ raw_content' = RawContent(content)
  /\ coupons' = ResultOf(url, raw_content')
  /\ spc' = "returned"
  /\ UNCHANGED << url, env_key, DEEPSEEK_TOKEN, content, api_exc, api_requests >>
  /\ UNCHANGED << revealVars, extractVars, runVars >>

\* The tokens of the short response texts.
Alphabet == { "[", "]", "{", "}", ",", "null", "not", SP }

ShortTexts == UNION { [ 1 .. n -> Alphabet ] : n \in 0 .. MaxRespLen }

NotJson == << "not", SP, "json" >>

\* [{"title":"A","description":"B","code":null,"value":"10%","link":null}]
NullLinkList ==
  << "[", "{", "\"title\"", ":", "\"A\"", ",", "\"description\"", ":", "\"B\"",
     ",", "\"code\"", ":", "null", ",", "\"value\"", ":", "\"10%\"", ",",
     "\"link\"", ":", "null", "}", "]" >>

\* [{"title": "A", "link": "https://shop.example/x"}, {"title": "B"}]
MixedLinkList ==
  << "[", "{", "\"title\"", ":", SP, "\"A\"", ",", SP, "\"link\"", ":", SP,
     "\"https://shop.example/x\"", "}", ",", SP, "{", "\"title\"", ":", SP,
     "\"B\"", "}", "]" >>

LongTexts ==
  { NotJson,
    << SP, "not", SP, "json", NL >>,
    NullLinkList,
    MixedLinkList,
    << "{", "\"title\"", ":", "\"A\"", "}" >>,
    << "7" >>, << "7", "7" >>, << "true" >>, << "\"A\"" >>,
    << "[", "7", ",", "true", ",", "\"A\"", "]" >>,
    << FF, "[", "]", FF >>,
    << NL, "[", SP, "]", NL >> }

\* The contents a response may hold: None, or a text.
Responses == { << >> } \cup { << t >> : t \in ShortTexts \cup LongTexts }

Urls == { "https://shop.example/a", "https://shop.example/b" }

SynthIdle ==
  /\ spc = "idle"
  /\ url = "https://shop.example/a"
  /\ env_key = << >>
  /\ DEEPSEEK_TOKEN = DefaultKey
  /\ content = << >>
  /\ raw_content = << >>
  /\ coupons = << >>
  /\ api_exc = "none"
  /\ api_requests = << >>


\* ------------------------------------------------------------------------
\* run and main (app.py 129-154)
\* ------------------------------------------------------------------------

\* main: result = asyncio.run(run(args.url)); run:
\* dynamic_result = await collect_dynamic_content(url), with the default
\* max_scrolls and max_clicks.
RunCollect ==
  /\ runpc = "start"
  /\ runpc' = "collect"
  /\ rpc' = "enter"
  /\ max_scrolls' = DefaultMaxScrolls
  /\ max_clicks' = DefaultMaxClicks
  /\ UNCHANGED << playwright, browser, previous_height, scroll_events,
                  scroll_i, kw, count, index, clicks, html, capture, exc,
                  heights, counts, attempts >>
  /\ UNCHANGED << extractVars, synthVars, run_exc, result, printed >>

\* html = dynamic_result["html"];
\* candidates = extract_coupon_candidates(html), with the default limit.
RunExtract ==
  /\ runpc = "collect"
  /\ rpc = "returned"
  /\ runpc' = "extract"
  /\ epc' = "walk"
  /\ soup' = << capture[1].html >>
  /\ limit' = DefaultLimit
  /\ pos' = 1
  /\ snippets' = << >>
  /\ UNCHANGED << candidates, revealVars, synthVars, run_exc, result, printed >>

\* coupons = summarize_with_ai(url, html, candidates)
RunSummarize ==
  /\ runpc = "extract"
  /\ epc = "returned"
  /\ runpc' = "summarize"
  /\ spc' = "call"
  /\ UNCHANGED << url, env_key, DEEPSEEK_TOKEN, content, raw_content, coupons,
                  api_exc, api_requests >>
  /\ UNCHANGED << revealVars, extractVars, run_exc, result, printed >>

\* (a mutant: candidates_found counts the coupons)
RunResultCountingCoupons ==
  [url |-> url,
   interactions |-> [scroll_events |-> capture[1].scroll_events,
                     clicks |-> capture[1].clicks],
   candidates_found |-> Len(coupons),
   coupons |-> coupons]

\* The dict of lines 134-142.
RunResult ==
  [url |-> url,
   interactions |-> [scroll_events |-> capture[1].scroll_events,
                     clicks |-> capture[1].clicks],
   candidates_found |-> Len(candidates),
   coupons |-> coupons]

\* run returns the dict of lines 134-142.
RunReturn ==
  /\ runpc = "summarize"
  /\ spc = "returned"
  /\ result' = << RunResult >>
  /\ runpc' = "returned"
  /\ UNCHANGED << revealVars, extractVars, synthVars, run_exc, printed >>

\* (a mutant: run catches the exception and returns what it has)
RunRaisesPartial ==
  /\ \/ runpc = "collect" /\ rpc = "raised"
     \/ runpc = "summarize" /\ spc = "raised"
  /\ result' = << [url |-> url, candidates_found |-> Len(candidates),
                   coupons |-> << >>] >>
  /\ runpc' = "returned"
  /\ UNCHANGED << revealVars, extractVars, synthVars, run_exc, printed >>

\* An exception of collect_dynamic_content or of summarize_with_ai leaves
\* run, which has no handler.
RunRaises ==
  /\ \/ runpc = "collect" /\ rpc = "raised" /\ run_exc' = exc
     \/ runpc = "summarize" /\ spc = "raised" /\ run_exc' = api_exc
  /\ runpc' = "raised"
  /\ UNCHANGED << revealVars, extractVars, synthVars, result, printed >>

\* print(json.dumps(result, ensure_ascii=False, indent=2))
MainPrints ==
  /\ runpc = "returned"
  /\ printed' = result
  /\ runpc' = "printed"
  /\ UNCHANGED << revealVars, extractVars, synthVars, run_exc, result >>

\* The exception leaves asyncio.run and main: the process ends with the
\* error and prints no result.
MainFails ==
  /\ runpc = "raised"
  /\ runpc' = "failed"
  /\ UNCHANGED << revealVars, extractVars, synthVars, run_exc, result, printed >>

RunIdle ==
  /\ runpc = "idle"
  /\ run_exc = "none"
  /\ result = << >>
  /\ printed = << >>

\* The pages and the responses of the runs of the whole program.
RunHeights == { 1000, 1800 }
RunCounts == { 0, 1 }

EmptyDoc == [nodes |-> << >>, ep |-> << 0, 0 >>]

\* hola <div>50% cupón de descuento</div>
PhraseDoc ==
  [nodes |-> << [s |-> << "hola" >>, k |-> "text", p |-> 0],
                [s |-> << "50%", SP, "cupón", SP, "de", SP, "descuento" >>,
                 k |-> "text", p |-> 1] >>,
   ep |-> << 0, 0 >>]

\* <div>OFERTA <div>50% cupón de descuento</div></div> OFERTA
NestedDoc ==
  [nodes |-> << [s |-> << "OFERTA" >>, k |-> "text", p |-> 1],
                [s |-> << "50%", SP, "cupón", SP, "de", SP, "descuento" >>,
                 k |-> "text", p |-> 2],
                [s |-> << SP, "OFERTA", NL >>, k |-> "text", p |-> 0] >>,
   ep |-> << 0, 1 >>]

RunDocs == { EmptyDoc, PhraseDoc, NestedDoc }

RunResponses ==
  { << >>, << << >> >>, << << "[", "]" >> >>, << NotJson >>, << NullLinkList >> }

\* ------------------------------------------------------------------------
\* collect_dynamic_content (app.py 42-74)
\* ------------------------------------------------------------------------

\* Heights document.body.scrollHeight may report, and the numbers of elements
\* a locator may match.  A page of many heights has few matches (SpecScroll),
\* a page of many matches has one height (SpecReveal).
Heights == {0, 1000, 1800}
FewCounts == {0, 1}
SteadyHeights == {1000}
Counts == 0 .. MaxCount

\* Where control goes when the scroll loop is over: the first keyword of the
\* click loop, or page.content() when there is no keyword.
AfterScroll == IF Len(Keywords) > 0 THEN "count" ELSE "content"

\* `async with async_playwright() as p` is entered.
EnterPlaywright ==
  /\ rpc = "enter"
  /\ playwright' = "running"
  /\ rpc' = "launch"
  /\ UNCHANGED << max_scrolls, max_clicks, browser, previous_height,
                  scroll_events, scroll_i, kw, count, index, clicks, html,
                  capture, exc, heights, counts, attempts >>
  /\ UNCHANGED << extractVars, synthVars, runVars >>

\* browser = await p.chromium.launch(headless=True)
Launch ==
  /\ rpc = "launch"
  /\ browser' = "open"
  /\ rpc' = "new_page"
  /\ UNCHANGED << max_scrolls, max_clicks, playwright, previous_height,
                  scroll_events, scroll_i, kw, count, index, clicks, html,
                  capture, exc, heights, counts, attempts >>
  /\ UNCHANGED << extractVars, synthVars, runVars >>

\* page = await browser.new_page()
NewPage ==
  /\ rpc = "new_page"
  /\ rpc' = "goto"
  /\ UNCHANGED << max_scrolls, max_clicks, playwright, browser,
                  previous_height, scroll_events, scroll_i, kw, count, index,
                  clicks, html, capture, exc, heights, counts, attempts >>
  /\ UNCHANGED << extractVars, synthVars, runVars >>

\* await page.goto(url, wait_until="networkidle") succeeds; the two counters
\* are initialised and the scroll loop is entered (or skipped when
\* range(max_scrolls) is empty).
Goto ==
  /\ rpc = "goto"
  /\ previous_height' = 0
  /\ scroll_events' = 0
  /\ scroll_i' = 0
  /\ clicks' = IF max_scrolls > 0 THEN clicks ELSE << >>
  /\ kw' = IF max_scrolls > 0 THEN kw ELSE 1
  /\ rpc' = IF max_scrolls > 0 THEN "wheel" ELSE AfterScroll
  /\ UNCHANGED << max_scrolls, max_clicks, playwright, browser, count, index,
                  html, capture, exc, heights, counts, attempts >>
  /\ UNCHANGED << extractVars, synthVars, runVars >>

\* await page.goto(...) raises: navigation failure.
GotoFails ==
  /\ rpc = "goto"
  /\ exc' = "NavigationError"
  /\ rpc' = "unwind"
  /\ UNCHANGED << max_scrolls, max_clicks, playwright, browser,
                  previous_height, scroll_events, scroll_i, kw, count, index,
                  clicks, html, capture, heights, counts, attempts >>
  /\ UNCHANGED << extractVars, synthVars, runVars >>

\* await page.mouse.wheel(0, 2400)
Wheel ==
  /\ rpc = "wheel"
  /\ rpc' = "settle"
  /\ UNCHANGED << max_scrolls, max_clicks, playwright, browser,
                  previous_height, scroll_events, scroll_i, kw, count, index,
                  clicks, html, capture, exc, heights, counts, attempts >>
  /\ UNCHANGED << extractVars, synthVars, runVars >>

\* await page.wait_for_timeout(1200)
SettleWait ==
  /\ rpc = "settle"
  /\ rpc' = "measure"
  /\ UNCHANGED << max_scrolls, max_clicks, playwright, browser,
                  previous_height, scroll_events, scroll_i, kw, count, index,
                  clicks, html, capture, exc, heights, counts, attempts >>
  /\ UNCHANGED << extractVars, synthVars, runVars >>

\* The rest of one scroll iteration, with new_height = h (a mutant: the
\* stagnation test comes before the increment of scroll_events).
MeasureStepBreakFirst(h) ==
  /\ heights' = Append(heights, h)
  /\ scroll_i' = scroll_i + 1
  /\ IF h = previous_height
       THEN /\ scroll_events' = scroll_events
            /\ previous_height' = previous_height
            /\ clicks' = << >>
            /\ kw' = 1
            /\ rpc' = AfterScroll
       ELSE /\ scroll_events' = scroll_events + 1
            /\ previous_height' = h
            /\ IF scroll_i + 1 < max_scrolls
                 THEN rpc' = "wheel" /\ UNCHANGED << clicks, kw >>
                 ELSE rpc' = AfterScroll /\ clicks' = << >> /\ kw' = 1

\* (a mutant: the loop is `while True`, left only by the stagnation test)
MeasureStepUncapped(h) ==
  /\ heights' = Append(heights, h)
  /\ scroll_events' = scroll_events + 1
  /\ scroll_i' = scroll_i + 1
  /\ IF h = previous_height
       THEN /\ previous_height' = previous_height
            /\ clicks' = << >>
            /\ kw' = 1
            /\ rpc' = AfterScroll
       ELSE /\ previous_height' = h
            /\ rpc' = "wheel"
            /\ UNCHANGED << clicks, kw >>

\* (a mutant: the loop has no stagnation test)
MeasureStepNoBreak(h) ==
  /\ heights' = Append(heights, h)
  /\ scroll_events' = scroll_events + 1
  /\ scroll_i' = scroll_i + 1
  /\ previous_height' = h
  /\ IF scroll_i + 1 < max_scrolls
       THEN rpc' = "wheel" /\ UNCHANGED << clicks, kw >>
       ELSE rpc' = AfterScroll /\ clicks' = << >> /\ kw' = 1

\* The rest of one scroll iteration, with new_height = h: scroll_events is
\* incremented, then the loop breaks when the height did not change, else
\* previous_height is updated and the loop goes on while range(max_scrolls)
\* lasts.  Leaving the loop runs `clicks = []` and starts the click loop.
MeasureStep(h) ==
  /\ heights' = Append(heights, h)
  /\ scroll_events' = scroll_events + 1
  /\ scroll_i' = scroll_i + 1
  /\ IF h = previous_height
       THEN /\ previous_height' = previous_height
            /\ clicks' = << >>
            /\ kw' = 1
            /\ rpc' = AfterScroll
       ELSE /\ previous_height' = h
            /\ IF scroll_i + 1 < max_scrolls
                 THEN rpc' = "wheel" /\ UNCHANGED << clicks, kw >>
                 ELSE rpc' = AfterScroll /\ clicks' = << >> /\ kw' = 1

\* new_height = await page.evaluate("document.body.scrollHeight") and the
\* rest of the iteration; the page reports any height of H.
Measure(H) ==
  /\ rpc = "measure"
  /\ \E h \in H : MeasureStep(h)
  /\ UNCHANGED << max_scrolls, max_clicks, playwright, browser, count, index,
                  html, capture, exc, counts, attempts >>
  /\ UNCHANGED << extractVars, synthVars, runVars >>

\* Control after the click iteration before `i` of a keyword with c matches
\* (a mutant: the inner loop ranges over all c matches, without the cap).
ClickLoopNextUncapped(i, c) ==
  IF i < c
    THEN index' = i /\ kw' = kw /\ rpc' = "click"
    ELSE /\ index' = index
         /\ IF kw < Len(Keywords)
              THEN kw' = kw + 1 /\ rpc' = "count"
              ELSE kw' = kw /\ rpc' = "content"

\* Control after the click iteration before `i` of a keyword with c matches:
\* `for index in range(min(count, max_clicks))` goes on with index = i, or it
\* is over and `for keyword in LOAD_MORE_KEYWORDS` goes on, or both are over.
ClickLoopNext(i, c) ==
  IF i < Min(c, max_clicks)
    THEN index' = i /\ kw' = kw /\ rpc' = "click"
    ELSE /\ index' = index
         /\ IF kw < Len(Keywords)
              THEN kw' = kw + 1 /\ rpc' = "count"
              ELSE kw' = kw /\ rpc' = "content"

\* locator = page.get_by_text(keyword, exact=False);
\* count = await locator.count(): the page matches any number of C.
CountMatches(C) ==
  /\ rpc = "count"
  /\ \E c \in C :
       /\ count' = c
       /\ counts' = Append(counts, c)
       /\ ClickLoopNext(0, c)
  /\ UNCHANGED << max_scrolls, max_clicks, playwright, browser,
                  previous_height, scroll_events, scroll_i, clicks, html,
                  capture, exc, heights, attempts >>
  /\ UNCHANGED << extractVars, synthVars, runVars >>

\* (a mutant: a successful click is recorded at once and the loop goes on
\* without the settle wait)
ClickSucceedsNoSettle ==
  /\ rpc = "click"
  /\ attempts' = Append(attempts,
                   [keyword |-> Keywords[kw], index |-> index, outcome |-> "ok"])
  /\ clicks' = Append(clicks, [keyword |-> Keywords[kw], index |-> index])
  /\ ClickLoopNext(index + 1, count)
  /\ UNCHANGED << max_scrolls, max_clicks, playwright, browser,
                  previous_height, scroll_events, scroll_i, count, html,
                  capture, exc, heights, counts >>
  /\ UNCHANGED << extractVars, synthVars, runVars >>

\* await locator.nth(index).click(timeout=2000) succeeds.
ClickSucceeds ==
  /\ rpc = "click"
  /\ attempts' = Append(attempts,
                   [keyword |-> Keywords[kw], index |-> index, outcome |-> "ok"])
  /\ rpc' = "click_settle"
  /\ UNCHANGED << max_scrolls, max_clicks, playwright, browser,
                  previous_height, scroll_events, scroll_i, kw, count, index,
                  clicks, html, capture, exc, heights, counts >>
  /\ UNCHANGED << extractVars, synthVars, runVars >>

\* (a mutant: the timeout is not caught and leaves the function)
ClickTimesOutUncaught ==
  /\ rpc = "click"
  /\ attempts' = Append(attempts,
                   [keyword |-> Keywords[kw], index |-> index, outcome |-> "timeout"])
  /\ exc' = "TimeoutError"
  /\ rpc' = "unwind"
  /\ UNCHANGED << max_scrolls, max_clicks, playwright, browser,
                  previous_height, scroll_events, scroll_i, kw, count, index,
                  clicks, html, capture, heights, counts >>
  /\ UNCHANGED << extractVars, synthVars, runVars >>

\* await locator.nth(index).click(timeout=2000) raises PlaywrightTimeoutError:
\* `except PlaywrightTimeoutError: continue`.
ClickTimesOut ==
  /\ rpc = "click"
  /\ attempts' = Append(attempts,
                   [keyword |-> Keywords[kw], index |-> index, outcome |-> "timeout"])
  /\ ClickLoopNext(index + 1, count)
  /\ UNCHANGED << max_scrolls, max_clicks, playwright, browser,
                  previous_height, scroll_events, scroll_i, count, clicks,
                  html, capture, exc, heights, counts >>
  /\ UNCHANGED << extractVars, synthVars, runVars >>

\* await page.wait_for_timeout(1500), then
\* clicks.append({"keyword": keyword, "index": index}).
ClickSettle ==
  /\ rpc = "click_settle"
  /\ clicks' = Append(clicks, [keyword |-> Keywords[kw], index |-> index])
  /\ ClickLoopNext(index + 1, count)
  /\ UNCHANGED << max_scrolls, max_clicks, playwright, browser,
                  previous_height, scroll_events, scroll_i, count, html,
                  capture, exc, heights, counts, attempts >>
  /\ UNCHANGED << extractVars, synthVars, runVars >>

\* html = await page.content(): the rendered markup is any document of D.
Content(D) ==
  /\ rpc = "content"
  /\ \E d \in D : html' = << d >>
  /\ rpc' = "close"
  /\ UNCHANGED << max_scrolls, max_clicks, playwright, browser,
                  previous_height, scroll_events, scroll_i, kw, count, index,
                  clicks, capture, exc, heights, counts, attempts >>
  /\ UNCHANGED << extractVars, synthVars, runVars >>

\* await browser.close()
Close ==
  /\ rpc = "close"
  /\ browser' = "closed"
  /\ rpc' = "exit"
  /\ UNCHANGED << max_scrolls, max_clicks, playwright, previous_height,
                  scroll_events, scroll_i, kw, count, index, clicks, html,
                  capture, exc, heights, counts, attempts >>
  /\ UNCHANGED << extractVars, synthVars, runVars >>

\* return {"html": html, "scroll_events": scroll_events, "clicks": clicks}
\* leaves the `async with` block: the driver is stopped, which ends any
\* browser it launched that is still open.
ReturnCapture ==
  /\ rpc = "exit"
  /\ playwright' = "stopped"
  /\ browser' = IF browser = "open" THEN "closed" ELSE browser
  /\ capture' = << [html |-> html[1], scroll_events |-> scroll_events,
                    clicks |-> clicks] >>
  /\ rpc' = "returned"
  /\ UNCHANGED << max_scrolls, max_clicks, previous_height, scroll_events,
                  scroll_i, kw, count, index, clicks, html, exc, heights,
                  counts, attempts >>
  /\ UNCHANGED << extractVars, synthVars, runVars >>

\* The awaits other than page.goto: each may raise an error that no handler
\* of the function catches.
AwaitPoints ==
  { "launch", "new_page", "wheel", "settle", "measure", "count", "click",
    "click_settle", "content", "close" }

\* An await raises an error (for click: one that is not a timeout).
AwaitFails ==
  /\ rpc \in AwaitPoints
  /\ exc' = "Error"
  /\ attempts' = IF rpc = "click"
                   THEN Append(attempts, [keyword |-> Keywords[kw],
                                          index |-> index, outcome |-> "error"])
                   ELSE attempts
  /\ rpc' = "unwind"
  /\ UNCHANGED << max_scrolls, max_clicks, playwright, browser,
                  previous_height, scroll_events, scroll_i, kw, count, index,
                  clicks, html, capture, heights, counts >>
  /\ UNCHANGED << extractVars, synthVars, runVars >>

\* (a mutant: the exception leaves the function with the driver and its
\* browser left as they are, as without the `async with`)
UnwindNoRelease ==
  /\ rpc = "unwind"
  /\ rpc' = "raised"
  /\ UNCHANGED << max_scrolls, max_clicks, playwright, browser,
                  previous_height, scroll_events, scroll_i, kw, count, index,
                  clicks, html, capture, exc, heights, counts, attempts >>
  /\ UNCHANGED << extractVars, synthVars, runVars >>

\* An exception leaves the `async with` block: the driver is stopped, which
\* ends any browser it launched that is still open, and the exception leaves
\* the function.
Unwind ==
  /\ rpc = "unwind"
  /\ playwright' = "stopped"
  /\ browser' = IF browser = "open" THEN "closed" ELSE browser
  /\ rpc' = "raised"
  /\ UNCHANGED << max_scrolls, max_clicks, previous_height, scroll_events,
                  scroll_i, kw, count, index, clicks, html, capture, exc,
                  heights, counts, attempts >>
  /\ UNCHANGED << extractVars, synthVars, runVars >>

\* The documents page.content() may return in the runs of
\* collect_dynamic_content alone.
RevealDocs == { [nodes |-> << >>, ep |-> << 0, 0 >>] }

RevealIdle ==
  /\ playwright = "none"
  /\ browser = "none"
  /\ previous_height = 0
  /\ scroll_events = 0
  /\ scroll_i = 0
  /\ kw = 1
  /\ count = 0
  /\ index = 0
  /\ clicks = << >>
  /\ html = << >>
  /\ capture = << >>
  /\ exc = "none"
  /\ heights = << >>
  /\ counts = << >>
  /\ attempts = << >>

\* collect_dynamic_content(url, max_scrolls, max_clicks) is called.
InitReveal ==
  /\ rpc = "enter"
  /\ max_scrolls \in 0 .. MaxScrollsArg
  /\ max_clicks \in 0 .. MaxClicksArg
  /\ RevealIdle
  /\ ExtractIdle
  /\ SynthIdle
  /\ RunIdle

NextReveal ==
  \/ EnterPlaywright
  \/ Launch
  \/ NewPage
  \/ Goto
  \/ GotoFails
  \/ Wheel
  \/ SettleWait
  \/ Measure(SteadyHeights)
  \/ CountMatches(Counts)
  \/ ClickSucceeds
  \/ ClickTimesOut
  \/ ClickSettle
  \/ Content(RevealDocs)
  \/ Close
  \/ ReturnCapture
  \/ AwaitFails
  \/ Unwind

SpecReveal == InitReveal /\ [][NextReveal]_vars

NextScroll ==
  \/ EnterPlaywright
  \/ Launch
  \/ NewPage
  \/ Goto
  \/ GotoFails
  \/ Wheel
  \/ SettleWait
  \/ Measure(Heights)
  \/ CountMatches(FewCounts)
  \/ ClickSucceeds
  \/ ClickTimesOut
  \/ ClickSettle
  \/ Content(RevealDocs)
  \/ Close
  \/ ReturnCapture
  \/ AwaitFails
  \/ Unwind

SpecScroll == InitReveal /\ [][NextScroll]_vars

\* collect_dynamic_content on a page that never settles: every measurement
\* finds the height of the one before or a greater one (up to a height no
\* call reaches), and every keyword matches nothing or MaxCount elements,
\* more than any max_clicks.  Every await returns or raises: a step that is
\* possible is taken in the end.
GrowingHeights ==
  { previous_height,
    Min(previous_height + 1000, (MaxScrollsArg + 2) * 1000) }

ManyCounts == { 0, MaxCount }

NextLive ==
  \/ EnterPlaywright
  \/ Launch
  \/ NewPage
  \/ Goto
  \/ GotoFails
  \/ Wheel
  \/ SettleWait
  \/ Measure(GrowingHeights)
  \/ CountMatches(ManyCounts)
  \/ ClickSucceeds
  \/ ClickTimesOut
  \/ ClickSettle
  \/ Content(RevealDocs)
  \/ Close
  \/ ReturnCapture
  \/ AwaitFails
  \/ Unwind

SpecLive == InitReveal /\ [][NextLive]_vars /\ WF_vars(NextLive)

\* extract_coupon_candidates(html, limit) is called.
InitExtract ==
  /\ epc = "walk"
  /\ soup \in { << d >> : d \in Docs }
  /\ limit \in 0 .. MaxLimit
  /\ pos = 1
  /\ snippets = << >>
  /\ candidates = << >>
  /\ rpc = "idle"
  /\ max_scrolls = 0
  /\ max_clicks = 0
  /\ RevealIdle
  /\ SynthIdle
  /\ RunIdle

NextExtract ==
  \/ WalkNode
  \/ ExtractReturn

SpecExtract == InitExtract /\ [][NextExtract]_vars


\* summarize_with_ai(url, html, candidates) is called.
InitSynth ==
  /\ spc = "call"
  /\ url \in Urls
  /\ env_key \in { << >>, << "sk-from-env" >> }
  /\ DEEPSEEK_TOKEN = TokenFromEnv(env_key)
  /\ content = << >>
  /\ raw_content = << >>
  /\ coupons = << >>
  /\ api_exc = "none"
  /\ api_requests = << >>
  /\ epc = "idle"
  /\ soup = << >>
  /\ limit = 0
  /\ pos = 1
  /\ snippets = << >>
  /\ candidates \in { << >>, << << "OFERTA" >> >> }
  /\ rpc = "idle"
  /\ max_scrolls = 0
  /\ max_clicks = 0
  /\ RevealIdle
  /\ RunIdle

NextSynth ==
  \/ CallModel(Responses)
  \/ CallModelFails
  \/ HandleResponse

SpecSynth == InitSynth /\ [][NextSynth]_vars


\* The module is loaded (DEEPSEEK_TOKEN is set from the environment) and
\* main is called with a URL.
Init ==
  /\ runpc = "start"
  /\ run_exc = "none"
  /\ result = << >>
  /\ printed = << >>
  /\ spc = "idle"
  /\ url \in Urls
  /\ env_key \in { << >>, << "sk-from-env" >> }
  /\ DEEPSEEK_TOKEN = TokenFromEnv(env_key)
  /\ content = << >>
  /\ raw_content = << >>
  /\ coupons = << >>
  /\ api_exc = "none"
  /\ api_requests = << >>
  /\ ExtractIdle
  /\ rpc = "idle"
  /\ max_scrolls = 0
  /\ max_clicks = 0
  /\ RevealIdle

Next ==
  \/ RunCollect
  \/ EnterPlaywright
  \/ Launch
  \/ NewPage
  \/ Goto
  \/ GotoFails
  \/ Wheel
  \/ SettleWait
  \/ Measure(RunHeights)
  \/ CountMatches(RunCounts)
  \/ ClickSucceeds
  \/ ClickTimesOut
  \/ ClickSettle
  \/ Content(RunDocs)
  \/ Close
  \/ ReturnCapture
  \/ AwaitFails
  \/ Unwind
  \/ RunExtract
  \/ WalkNode
  \/ ExtractReturn
  \/ RunSummarize
  \/ CallModel(RunResponses)
  \/ CallModelFails
  \/ HandleResponse
  \/ RunReturn
  \/ RunRaises
  \/ MainPrints
  \/ MainFails

Spec == Init /\ [][Next]_vars

\* ------------------------------------------------------------------------
\* Properties of collect_dynamic_content
\* ------------------------------------------------------------------------

C5_TwoIterations ==
  heights = << 1000, 1800, 1800 >> =>
    /\ scroll_events = 2
    /\ capture # << >> => capture[1].scroll_events = 2

\* C5 amended: after the heights 1000, 1800, 1800 the loop has made exactly 3
\* iterations, it scrolls no more, and scroll_events, also as returned,
\* equals 3.
C5_ThreeIterations ==
  heights = << 1000, 1800, 1800 >> =>
    /\ scroll_events = 3
    /\ scroll_i = 3
    /\ rpc \notin {"wheel", "settle", "measure"}
    /\ capture # << >> => capture[1].scroll_events = 3

\* C5 witness: a call with room for a fourth iteration returned after the
\* heights 1000, 1800, 1800.
C5_Witness ==
  /\ heights = << 1000, 1800, 1800 >>
  /\ max_scrolls = 4
  /\ rpc = "returned"
  /\ capture # << >>

\* The click attempts made for the k-th keyword, and the clicks recorded.
AttemptsOf(k) == SelectSeq(attempts, LAMBDA a : a.keyword = Keywords[k])
ClicksOf(k) == SelectSeq(clicks, LAMBDA c : c.keyword = Keywords[k])

\* The inner loop of the k-th keyword is over.
KeywordDone(k) ==
  /\ k <= Len(counts)
  /\ \/ kw > k
     \/ rpc \in {"content", "close", "exit", "returned"}

\* C6: the attempts for a keyword are on the indices 0, 1, ... in order and
\* never more than min(matchCount, max_clicks); when the keyword's loop is
\* over they are exactly min(matchCount, max_clicks), whatever their
\* outcomes; no keyword has more than max_clicks recorded clicks.
C6_AttemptsPerKeyword ==
  \A k \in 1 .. Len(Keywords) :
    /\ \A i \in 1 .. Len(AttemptsOf(k)) : AttemptsOf(k)[i].index = i - 1
    /\ k <= Len(counts) =>
         Len(AttemptsOf(k)) <= Min(counts[k], max_clicks)
    /\ k > Len(counts) => AttemptsOf(k) = << >>
    /\ KeywordDone(k) => Len(AttemptsOf(k)) = Min(counts[k], max_clicks)
    /\ Len(ClicksOf(k)) <= max_clicks

\* C6 witness: a keyword with more matches than max_clicks is over, with
\* max_clicks attempts of which one timed out and one succeeded.
C6_Witness ==
  /\ KeywordDone(1)
  /\ counts[1] = 3
  /\ max_clicks = 2
  /\ Len(AttemptsOf(1)) = 2
  /\ AttemptsOf(1)[1].outcome = "timeout"
  /\ AttemptsOf(1)[2].outcome = "ok"

\* A step in which a click attempt times out.
ClickTimedOutStep ==
  /\ Len(attempts') = Len(attempts) + 1
  /\ attempts'[Len(attempts')].outcome = "timeout"

\* C7: a click attempt that times out appends no ClickEvent, starts no
\* settle wait and raises nothing; control goes on to the next element of
\* the keyword, else to the next keyword, else to the markup capture.
C7_TimeoutAbsorbed ==
  [][ClickTimedOutStep =>
       /\ clicks' = clicks
       /\ exc' = exc
       /\ rpc' # "click_settle"
       /\ IF index + 1 < Min(count, max_clicks)
            THEN rpc' = "click" /\ index' = index + 1 /\ kw' = kw
            ELSE IF kw < Len(Keywords)
                   THEN rpc' = "count" /\ kw' = kw + 1
                   ELSE rpc' = "content"]_vars

\* C7 witness: the function returned a capture after an attempt that timed
\* out, a later attempt of the same keyword and an attempt of a later
\* keyword; the timed out attempt has no ClickEvent.
C7_Witness ==
  /\ rpc = "returned"
  /\ capture # << >>
  /\ Len(attempts) >= 3
  /\ attempts[1].outcome = "timeout"
  /\ attempts[2].keyword = attempts[1].keyword
  /\ attempts[3].keyword # attempts[1].keyword
  /\ \A i \in 1 .. Len(clicks) :
       ~(clicks[i].keyword = attempts[1].keyword
         /\ clicks[i].index = attempts[1].index)

\* ------------------------------------------------------------------------
\* Properties of extract_coupon_candidates
\* ------------------------------------------------------------------------

NoDuplicates(q) == \A i \in 1 .. Len(q), j \in 1 .. Len(q) : q[i] = q[j] => i = j

\* C8 as stated: for every limit, 0 included, the list holds no duplicates
\* and never more than limit snippets, and no string is walked once the
\* limit is reached.
C8_DedupAndLimit ==
  /\ NoDuplicates(snippets)
  /\ Len(snippets) <= limit
  /\ epc = "returned" => NoDuplicates(candidates) /\ Len(candidates) <= limit

\* ------------------------------------------------------------------------
\* Properties of summarize_with_ai
\* ------------------------------------------------------------------------

\* The response holds a text that json.loads parses to a list.
ParsesToList(c) ==
  c # << >> /\ JsonLoads(c[1]).ok /\ JsonLoads(c[1]).val.t = "list"

IsFallbackFor(q, u, t) ==
  /\ Len(q) = 1
  /\ q[1].t = "dict"
  /\ q[1].v = << << "title", [t |-> "str", v |-> << Sentinel >>] >>,
                 << "description", [t |-> "str", v |-> Strip(t)] >>,
                 << "code", JNull >>,
                 << "value", JNull >>,
                 << "link", [t |-> "str", v |-> << u >>] >> >>

HasLink(x) ==
  /\ x.t = "dict"
  /\ HasKey(x, "link")
  /\ Get(x, "link").t = "str"
  /\ Get(x, "link").v # << >>

\* C3 as stated: every returned record has a non-empty link, and the
\* response NullLinkList is returned with its null link set to the URL.
C3_EveryRecordHasLink ==
  spc = "returned" =>
    /\ \A i \in 1 .. Len(coupons) : coupons[i].t = "dict" => HasLink(coupons[i])
    /\ content = << NullLinkList >> =>
         Get(coupons[1], "link") = JStr(<< url >>)

\* C3 amended: a list of the model is returned as it was parsed, a null link
\* stays null and an omitted link stays omitted; only the fallback record is
\* given the input URL as its link.
C3_ListReturnedAsParsed ==
  spc = "returned" =>
    /\ ParsesToList(content) /\ content[1] # << >> =>
         coupons = JsonLoads(content[1]).val.v
    /\ content = << NullLinkList >> =>
         coupons = << [t |-> "dict",
                       v |-> << << "title", JStr(<< "A" >>) >>,
                                << "description", JStr(<< "B" >>) >>,
                                << "code", JNull >>,
                                << "value", JStr(<< "10%" >>) >>,
                                << "link", JNull >> >>] >>
    /\ content = << MixedLinkList >> =>
         /\ Len(coupons) = 2
         /\ Get(coupons[1], "link") = JStr(<< "https://shop.example/x" >>)
         /\ ~HasKey(coupons[2], "link")

\* C3 witness: the response NullLinkList was answered with one record whose
\* link is null.
C3_Witness ==
  /\ spc = "returned"
  /\ content = << NullLinkList >>
  /\ Len(coupons) = 1
  /\ Get(coupons[1], "link") = JNull

\* ------------------------------------------------------------------------
\* Properties of run and main
\* ------------------------------------------------------------------------

\* C9: when DEEPSEEK_API_KEY is not in the environment, no request is sent to
\* the model API and no result is returned or printed.
C9_NoRequestWithoutKey ==
  env_key = << >> =>
    /\ api_requests = << >>
    /\ result = << >>
    /\ printed = << >>

\* C10: when navigation or the model call fails, the exception leaves run as
\* it was raised and nothing is returned or printed; when run returns, its
\* result holds the number of candidates extracted and the scroll_events and
\* clicks of the capture, and that result is what main prints.
C10_FatalOrComplete ==
  /\ rpc = "raised" =>
       /\ runpc \in { "collect", "raised", "failed" }
       /\ spc = "idle" /\ epc = "idle"
  /\ spc = "raised" => runpc \in { "summarize", "raised", "failed" }
  /\ runpc \in { "raised", "failed" } =>
       /\ result = << >> /\ printed = << >>
       /\ run_exc # "none"
       /\ rpc = "raised" => run_exc = exc
       /\ spc = "raised" => run_exc = "APIError"
  /\ result # << >> =>
       /\ rpc = "returned" /\ epc = "returned" /\ spc = "returned"
       /\ result[1].url = url
       /\ result[1].candidates_found = Len(candidates)
       /\ result[1].interactions.scroll_events = capture[1].scroll_events
       /\ result[1].interactions.clicks = capture[1].clicks
       /\ result[1].coupons = coupons
  /\ printed # << >> => printed = result

\* C10 witness: the model call failed after candidates were extracted and
\* clicks were made; the error left main and nothing was returned or printed.
C10_Witness ==
  /\ runpc = "failed"
  /\ run_exc = "APIError"
  /\ Len(candidates) > 0
  /\ Len(capture[1].clicks) > 0
  /\ result = << >>
  /\ printed = << >>

\* ------------------------------------------------------------------------
\* Further properties of summarize_with_ai
\* ------------------------------------------------------------------------

\* C11 as stated: whenever summarize_with_ai returns, the returned list has
\* at least one record.
C11_AtLeastOne == spc = "returned" => Len(coupons) >= 1

\* C11 amended: the returned list is empty exactly when the text handed to
\* json.loads parses to an empty list; in every other case it has at least
\* one record, and exactly one when the text is not a JSON list.
C11_AtLeastOneUnlessEmptyList ==
  spc = "returned" =>
    /\ coupons = << >> <=>
         /\ JsonLoads(raw_content).ok
         /\ JsonLoads(raw_content).val.t = "list"
         /\ JsonLoads(raw_content).val.v = << >>
    /\ ~(JsonLoads(raw_content).ok /\ JsonLoads(raw_content).val.t = "list")
         => Len(coupons) = 1

\* C11 witness: the response `\n[ ]\n` was answered with the empty list.
C11_Witness ==
  /\ spc = "returned"
  /\ content = << << NL, "[", SP, "]", NL >> >>
  /\ coupons = << >>

\* ------------------------------------------------------------------------
\* Further properties of the scroll loop
\* ------------------------------------------------------------------------

\* The last measured height equals the height measured before it (0 before
\* the first one): the test of line 56 holds.
Stagnated ==
  /\ heights # << >>
  /\ heights[Len(heights)] =
       (IF Len(heights) = 1 THEN 0 ELSE heights[Len(heights) - 1])

InScrollLoop == rpc \in { "wheel", "settle", "measure" }

\* C12: scroll_events is the number of iterations that measured a height,
\* the stagnating one included; no scroll follows the stagnating iteration;
\* the value returned for max_scrolls >= 1 is between 1 and max_scrolls.
C12_ScrollEventsCountIterations ==
  /\ scroll_events = Len(heights)
  /\ scroll_events = scroll_i
  /\ scroll_events <= max_scrolls
  /\ Stagnated => ~InScrollLoop
  /\ capture # << >> =>
       /\ capture[1].scroll_events = Len(heights)
       /\ max_scrolls >= 1 =>
            /\ 1 <= capture[1].scroll_events
            /\ capture[1].scroll_events <= max_scrolls

\* C12 witness: the first height measured was 0, which is the stagnating
\* iteration of a call with max_scrolls = 4; the call returned
\* scroll_events = 1.
C12_Witness ==
  /\ rpc = "returned"
  /\ max_scrolls = 4
  /\ heights = << 0 >>
  /\ capture[1].scroll_events = 1

\* The last measured height is not above the height measured before it.
NotIncreased ==
  /\ heights # << >>
  /\ heights[Len(heights)] <=
       (IF Len(heights) = 1 THEN 0 ELSE heights[Len(heights) - 1])

\* C14: the loop scrolls no more after an iteration whose height is equal to
\* or lower than the height before it.
C14_StopsWhenNotIncreased == NotIncreased => ~InScrollLoop

\* What line 56 does: the loop scrolls no more after an iteration whose
\* height is equal to the height before it; after any other height, a lower
\* one included, it goes on while iterations of range(max_scrolls) are left.
StopsOnlyWhenEqual ==
  /\ Stagnated => ~InScrollLoop
  /\ (heights # << >> /\ ~Stagnated) =>
       /\ rpc \notin { "unwind", "raised" } =>
            previous_height = heights[Len(heights)]
       /\ Len(heights) < max_scrolls =>
            rpc \in { "wheel", "settle", "measure", "unwind", "raised" }

\* Such a run: after 1800 the height 1000 was measured and the loop went on
\* to a third iteration, which stagnated; the call returned.
LowerHeightGoesOn ==
  /\ rpc = "returned"
  /\ heights = << 1800, 1000, 1000 >>
  /\ capture[1].scroll_events = 3

\* ------------------------------------------------------------------------
\* Further properties of extract_coupon_candidates
\* ------------------------------------------------------------------------

Phrase == << "50%", SP, "cupón", SP, "de", SP, "descuento" >>

\* t occurs in c.
ContainsSeq(c, t) ==
  \E i \in 1 .. Len(c) - Len(t) + 1 : SubSeq(c, i, i + Len(t) - 1) = t

\* The elements of document d that have the phrase as a text string of
\* their own: the <div>s of the claim.
PhraseDivs(d) ==
  { d.nodes[i].p : i \in { j \in 1 .. Len(d.nodes) :
                             /\ d.nodes[j].k = "text"
                             /\ d.nodes[j].p # 0
                             /\ Strip(d.nodes[j].s) = Phrase } }

\* The function returned at the end of the strings: the limit was not
\* reached.
LimitNotReached == epc = "returned" /\ Len(candidates) < limit

\* C13 as stated: when the markup has the phrase in a <div>, exactly one
\* candidate contains the phrase.
C13_OneCandidateWithPhrase ==
  (LimitNotReached /\ PhraseDivs(soup[1]) # {}) =>
    Cardinality({ i \in 1 .. Len(candidates) :
                    ContainsSeq(candidates[i], Phrase) }) = 1

\* C13 amended: when the markup has the phrase in a <div> and the limit is
\* not reached, the visible text of that <div>, which contains the phrase,
\* is a candidate exactly once, however often it occurs in the markup.
C13_DivSnippetExactlyOnce ==
  LimitNotReached =>
    \A e \in PhraseDivs(soup[1]) :
      /\ ContainsSeq(GetText(soup[1], e), Phrase)
      /\ Cardinality({ i \in 1 .. Len(candidates) :
                         candidates[i] = GetText(soup[1], e) }) = 1

\* C13 witness: two <div>s side by side hold the phrase, and the candidates
\* are the phrase once.
C13_Witness ==
  /\ epc = "returned"
  /\ limit = MaxLimit
  /\ Len(soup[1].nodes) = 2
  /\ soup[1].ep = << 0, 0 >>
  /\ soup[1].nodes[1] = [s |-> Phrase, k |-> "text", p |-> 1]
  /\ soup[1].nodes[2] = [s |-> Phrase, k |-> "text", p |-> 2]
  /\ candidates = << Phrase >>

\* ------------------------------------------------------------------------
\* Order of the interactions of collect_dynamic_content
\* ------------------------------------------------------------------------

\* The place of a keyword in LOAD_MORE_KEYWORDS.
KwPos(k) == CHOOSE q \in 1 .. Len(Keywords) : Keywords[q] = k

\* q is grouped by keyword in list order, with increasing index within a
\* keyword.
InClickOrder(q) ==
  \A i \in 1 .. Len(q), j \in 1 .. Len(q) :
    i < j =>
      \/ KwPos(q[i].keyword) < KwPos(q[j].keyword)
      \/ q[i].keyword = q[j].keyword /\ q[i].index < q[j].index

\* The successful attempts, in the order they were made, as ClickEvents.
\* (The last of them is not yet in clicks during its settle wait, and never
\* if that wait raises.)
OkAttempts ==
  LET ok == SelectSeq(attempts, LAMBDA a : a.outcome = "ok")
  IN [ i \in 1 .. Len(ok) |->
         [keyword |-> ok[i].keyword, index |-> ok[i].index] ]

C15_Ordered ==
  /\ InClickOrder(attempts)
  /\ InClickOrder(clicks)
  /\ IF rpc = "click_settle"
       THEN OkAttempts = Append(clicks, OkAttempts[Len(OkAttempts)])
       ELSE \/ clicks = OkAttempts
            \/ /\ rpc \in { "unwind", "raised" }
               /\ OkAttempts = Append(clicks, OkAttempts[Len(OkAttempts)])
  /\ (counts # << >> \/ attempts # << >>) => ~InScrollLoop
  /\ rpc \in { "count", "click", "click_settle" } => Len(counts) \in { kw - 1, kw }
  /\ html # << >> => rpc \in { "close", "exit", "returned", "unwind", "raised" }

C15_Steps ==
  /\ rpc' = "wheel" => rpc \in { "goto", "measure", "wheel" }
  /\ heights' # heights => rpc = "measure" /\ counts = << >> /\ attempts = << >>
  /\ counts' # counts =>
       /\ rpc = "count"
       /\ counts' = Append(counts, count')
       /\ Len(counts') = kw
  /\ attempts' # attempts =>
       /\ rpc = "click"
       /\ Len(attempts') = Len(attempts) + 1
       /\ attempts'[Len(attempts')].outcome = "ok" => rpc' = "click_settle"
  /\ rpc = "click_settle" => attempts' = attempts /\ html' = html
  /\ (clicks' # clicks /\ rpc # "goto") =>
       /\ rpc = "click_settle"
       /\ clicks' = Append(clicks, OkAttempts[Len(OkAttempts)])
  /\ html' # html =>
       /\ rpc = "content"
       /\ attempts' = attempts /\ clicks' = clicks
  /\ html # << >> =>
       /\ attempts' = attempts /\ clicks' = clicks
       /\ counts' = counts /\ heights' = heights

\* C15: the first scroll follows the navigation, the first keyword count and
\* click attempt follow the scroll loop, keywords are tried in list order,
\* a successful click is followed by its settle wait before anything else,
\* the markup is captured after the last attempt, and clicks holds the
\* successful attempts in the order they were made: by keyword in list
\* order, with increasing index within a keyword.
C15_SerialAndOrdered == []C15_Ordered /\ [][C15_Steps]_vars

\* C15 witness: a capture was returned after scrolling and after successful
\* clicks on two matches of the first keyword and one of the second.
C15_Witness ==
  /\ rpc = "returned"
  /\ heights = << 1000, 1000 >>
  /\ clicks = << [keyword |-> Keywords[1], index |-> 0],
                 [keyword |-> Keywords[1], index |-> 1],
                 [keyword |-> Keywords[2], index |-> 0] >>
  /\ capture[1].clicks = clicks

\* ------------------------------------------------------------------------
\* Termination of collect_dynamic_content
\* ------------------------------------------------------------------------

\* The scroll iterations begun: those that measured a height and the one
\* under way.
ScrollsBegun ==
  Len(heights) + (IF rpc \in { "settle", "measure" } THEN 1 ELSE 0)

C16_Bounds ==
  /\ ScrollsBegun <= max_scrolls
  /\ Len(attempts) <= Len(Keywords) * max_clicks

\* C16: whatever the page does, the function begins at most max_scrolls
\* scroll iterations and makes at most |LOAD_MORE_KEYWORDS| * max_clicks
\* click attempts, and in the end it has returned or raised.
C16_ReturnsWithinBounds ==
  []C16_Bounds /\ <>(rpc \in { "returned", "raised" })

\* C16 witness: the height grew in every one of max_scrolls = 4 iterations,
\* every keyword matched more elements than max_clicks = 2 and was clicked
\* max_clicks times, and the function returned.
C16_Witness ==
  /\ rpc = "returned"
  /\ max_scrolls = 4
  /\ max_clicks = 2
  /\ heights = << 1000, 2000, 3000, 4000 >>
  /\ \A k \in 1 .. Len(Keywords) : counts[k] = MaxCount
  /\ Len(attempts) = Len(Keywords) * max_clicks

\* ------------------------------------------------------------------------
\* Order of the stages of run
\* ------------------------------------------------------------------------

\* How far collect_dynamic_content has come: before the call, up to the
\* navigation, at the navigation, past it.
NavigationRank(pc) ==
  CASE pc = "idle" -> 0
    [] pc \in { "enter", "launch", "new_page" } -> 1
    [] pc = "goto" -> 2
    [] OTHER -> 3

C17_Stages ==
  /\ Len(api_requests) <= 1
  /\ api_requests # << >> =>
       /\ rpc = "returned"
       /\ capture # << >>
       /\ browser = "closed"
       /\ playwright = "stopped"
       /\ epc = "returned"
  /\ exc # "none" => api_requests = << >> /\ spc = "idle"

C17_Steps ==
  /\ api_requests' # api_requests =>
       /\ api_requests = << >>
       /\ spc = "call"
       /\ rpc = "returned" /\ browser = "closed" /\ epc = "returned"
  /\ NavigationRank(rpc') >= NavigationRank(rpc)
  /\ rpc = "goto" => rpc' # "goto"
  /\ runpc' = "start" => runpc = "start"
  /\ (spc' = "call" /\ spc # "call") => spc = "idle"

\* C17: at most one request is sent to the model, and only when
\* collect_dynamic_content has returned its capture with the browser closed
\* and extract_coupon_candidates has returned; none is sent after a failed
\* navigation (or any other failure of the collection); the navigation is
\* passed once: the one step taken at page.goto leaves it, and control never
\* comes back to it.
C17_OnceAndInOrder == []C17_Stages /\ [][C17_Steps]_vars

\* C17 witness: a run that scrolled, sent its one request and printed a
\* result.
C17_Witness ==
  /\ runpc = "printed"
  /\ heights # << >>
  /\ Len(api_requests) = 1
  /\ browser = "closed"
  /\ epc = "returned"

====
